---- MODULE Spec2Model ----
(***************************************************************************)
(* GP Finder (jamamo/GPfinder): the Flask application src/app.py and the   *)
(* one-time loader src/import_gps.py.                                      *)
(*                                                                         *)
(* Strings the code inspects (form values, usernames, spreadsheet cells)   *)
(* are sequences of one-character strings, so that strip() and the         *)
(* truthiness test `x or None` are computed, not assumed.  A Python value  *)
(* that may be None is an option: None is <<>> and a present value v is    *)
(* <<v>>.                                                                  *)
(*                                                                         *)
(* The model covers requests that reach a route: the before_request hooks  *)
(* that answer before any route code runs (enforce_https, the CSRF check   *)
(* of CSRFProtect) are outside it.                                         *)
(***************************************************************************)
EXTENDS Integers, Sequences, FiniteSets, TLC

\* ---------------------------------------------------------------- bounds

\* Clock advances allowed in one behaviour.
MaxTicks == 3
\* Requests to /admin/login one address may send in one behaviour of the
\* session specification.
MaxLogins == 2
\* Requests to /admin/login one address may send in one behaviour of the
\* rate-limit specification (enough to pass the limit of 10).
MaxHits == 12
\* Rows ever inserted into gps in one behaviour of the store specification,
\* and of the guard specification.
MaxRows == 2
MaxGuardRows == 1

\* ------------------------------------------------------ program constants

\* app.config PERMANENT_SESSION_LIFETIME, seconds.
PERMANENT_SESSION_LIFETIME == 3600
\* @limiter.limit('10 per minute'): amount and window, seconds.
LIMIT_AMOUNT == 10
LIMIT_WINDOW == 60

\* LIMIT of the query of search and of the queries of admin_dashboard.
SEARCH_LIMIT == 100
ADMIN_LIMIT == 200

\* ---------------------------------------------------------------- values

None == << >>
Some(v) == << v >>
IsNone(o) == o = None
Get(o) == o[1]

\* Characters str.strip() removes (the ASCII ones the inputs use).
Whitespace == {" ", "\t"}

RECURSIVE lstrip(_)
lstrip(s) ==
  IF s = << >> THEN << >>
  ELSE IF Head(s) \in Whitespace THEN lstrip(Tail(s)) ELSE s

RECURSIVE rstrip(_)
rstrip(s) ==
  IF s = << >> THEN << >>
  ELSE IF s[Len(s)] \in Whitespace THEN rstrip(SubSeq(s, 1, Len(s) - 1)) ELSE s

\* str.strip()
strip(s) == rstrip(lstrip(s))

\* Python truthiness of an optional string: None and '' are falsy.
Truthy(o) == ~IsNone(o) /\ Get(o) # << >>

\* `request.form.get(k) or None`
OrNone(o) == IF Truthy(o) THEN o ELSE None

\* The twelve content columns of gps, in the order of the INSERT.
Fields ==
  << "practice_code", "practice_name", "partnership_name", "neighbourhood",
     "area", "address_line1", "address_line2", "address_line3", "postcode",
     "telephone", "email", "region" >>

FieldSet == { Fields[i] : i \in 1..Len(Fields) }
OptionalFields == FieldSet \ {"practice_name"}

\* ------------------------------------------------------------------ state

VARIABLES
  now,       \* wall clock, seconds
  nticks,    \* clock advances so far (bounds the behaviour)
  gps,       \* table gps: id -> [cols, created_at]
  gps_seq,   \* sqlite_sequence entry of gps (AUTOINCREMENT high-water mark)
  admins,    \* table admins: set of [id, username, password_hash]
  cookie,    \* per client: the session cookie the browser holds
  saved,     \* per client: a copy of an earlier cookie kept by its holder,
             \* and whether the client has logged out since it was taken
  limits,    \* limiter storage (memory://): address -> [count, expiry]
  inflight,  \* per client: a login request past the limiter, not yet answered
  auth_at,   \* per client: when its last successful login was answered (-1: never)
  passed,    \* per address: the times, within the last window length, at which
             \* the limiter let a request through
  imp,       \* position of a run of import_gps.main
  editing,   \* per client: its edit past the SELECT, not yet at the UPDATE
  booting,   \* per process: its init_db past the SELECT, not yet at the write
  conns,     \* the connections open: those of the requests (by client and
             \* route) that ended without closing theirs
  last       \* the last response (or console outcome) produced

vars == << now, nticks, gps, gps_seq, admins, cookie, saved, limits,
           inflight, auth_at, passed, imp, editing, booting, conns, last >>

Clients == {"c1", "c2", "c3"}
\* The processes that run an init_db: two workers of the application and
\* the loader.
Procs == {"web1", "web2", "loader"}
Addrs == {"a1", "a2"}
\* get_remote_address: c1 and c2 sit behind one address.
Addr(c) == IF c = "c3" THEN "a2" ELSE "a1"


\* ---------------------------------------------------------- record store

\* The parameter tuple of the INSERT in admin_add.
add_values(form) ==
  [f \in FieldSet |->
     IF f = "practice_name" THEN form[f] ELSE OrNone(form[f])]

\* The parameter tuple of the UPDATE in admin_edit.
edit_values(form) ==
  [f \in FieldSet |->
     IF f = "practice_name" THEN form[f] ELSE OrNone(form[f])]

\* practice_name TEXT NOT NULL: the statement raises sqlite3.IntegrityError.
ViolatesNotNull(cols) == IsNone(cols["practice_name"])

\* Mutant of InsertRow: the id is one more than the largest id in the
\* table (INTEGER PRIMARY KEY without AUTOINCREMENT).
InsertRow_rowid(tbl, seq, cols) ==
  LET top == IF DOMAIN tbl = {} THEN 0
             ELSE CHOOSE m \in DOMAIN tbl : \A t \in DOMAIN tbl : t <= m
  IN [t \in DOMAIN tbl \cup {top + 1} |->
        IF t = top + 1 THEN [cols |-> cols, created_at |-> now] ELSE tbl[t]]

\* INSERT INTO gps: AUTOINCREMENT id, created_at DEFAULT CURRENT_TIMESTAMP.
InsertRow(tbl, seq, cols) ==
  [t \in DOMAIN tbl \cup {seq + 1} |->
     IF t = seq + 1 THEN [cols |-> cols, created_at |-> now] ELSE tbl[t]]

\* Mutant of UpdateRow: the statement has no WHERE clause.
UpdateRow_all(tbl, id, cols) ==
  [t \in DOMAIN tbl |-> [cols |-> cols, created_at |-> tbl[t].created_at]]

\* Mutant of UpdateRow: the row is written whether it is there or not
\* (INSERT OR REPLACE).
UpdateRow_upsert(tbl, id, cols) ==
  [t \in DOMAIN tbl \cup {id} |->
     IF t = id
     THEN [cols |-> cols,
           created_at |-> IF id \in DOMAIN tbl THEN tbl[id].created_at ELSE now]
     ELSE tbl[t]]

\* UPDATE gps SET <twelve columns> WHERE id = ?
UpdateRow(tbl, id, cols) ==
  [t \in DOMAIN tbl |->
     IF t = id THEN [cols |-> cols, created_at |-> tbl[t].created_at]
     ELSE tbl[t]]

\* DELETE FROM gps WHERE id = ?
DeleteRow(tbl, id) == [t \in DOMAIN tbl \ {id} |-> tbl[t]]

\* SELECT * FROM gps WHERE id = ?  (fetchone: the row or None)
SelectGp(id) == IF id \in DOMAIN gps THEN Some(gps[id]) ELSE None

EmptyTable == [t \in {} |-> None]

\* The characters of the stored texts and search terms, in code point
\* order.
ASCII ==
  << " ", "%", "0", "1", "2", "3", "4", "5", "6", "7", "8", "9",
     "A", "B", "C", "D", "E", "F", "G", "H", "I", "J", "K", "L", "M",
     "N", "O", "P", "Q", "R", "S", "T", "U", "V", "W", "X", "Y", "Z",
     "_",
     "a", "b", "c", "d", "e", "f", "g", "h", "i", "j", "k", "l", "m",
     "n", "o", "p", "q", "r", "s", "t", "u", "v", "w", "x", "y", "z" >>

\* The code point of a character (its place in ASCII; 0 outside it).
Ord(ch) ==
  IF \E i \in 1..Len(ASCII) : ASCII[i] = ch
  THEN CHOOSE i \in 1..Len(ASCII) : ASCII[i] = ch
  ELSE 0

\* SQLite's LIKE folds the case of the ASCII letters (sqlite3UpperToLower).
Fold(ch) ==
  IF Ord(ch) >= Ord("A") /\ Ord(ch) <= Ord("Z")
  THEN ASCII[Ord(ch) + (Ord("a") - Ord("A"))]
  ELSE ch

\* text LIKE pattern, no ESCAPE clause: % matches any run of characters,
\* _ matches any one character, letters match whatever their case.
RECURSIVE like(_, _)
like(p, t) ==
  IF p = << >> THEN t = << >>
  ELSE IF Head(p) = "%"
       THEN like(Tail(p), t) \/ (t # << >> /\ like(p, Tail(t)))
  ELSE IF t = << >> THEN FALSE
  ELSE IF Head(p) = "_" THEN like(Tail(p), Tail(t))
  ELSE Fold(Head(p)) = Fold(Head(t)) /\ like(Tail(p), Tail(t))

\* column LIKE ?1 in a WHERE clause: a NULL column is no match.
ColumnLike(col, p) == ~IsNone(col) /\ like(p, Get(col))

\* f'%{q}%'
Pattern(q) == << "%" >> \o q \o << "%" >>

\* The columns of the WHERE clause of search and of admin_dashboard.
SearchColumns ==
  {"practice_name", "postcode", "practice_code", "address_line1",
   "neighbourhood", "area"}
AdminColumns == {"practice_name", "postcode", "practice_code"}

\* WHERE c1 LIKE ?1 OR c2 LIKE ?1 ...: the ids of the rows selected.
Where(tbl, columns, q) ==
  { i \in DOMAIN tbl :
      \E f \in columns : ColumnLike(tbl[i].cols[f], Pattern(q)) }

\* ORDER BY practice_name with the column's default collation, BINARY:
\* text a sorts strictly before text b by code points (memcmp).
RECURSIVE Before(_, _)
Before(a, b) ==
  IF a = << >> THEN b # << >>
  ELSE IF b = << >> THEN FALSE
  ELSE IF Head(a) = Head(b) THEN Before(Tail(a), Tail(b))
  ELSE Ord(Head(a)) < Ord(Head(b))

\* ORDER BY practice_name: the orders in which the selected rows may come
\* (rows of equal name in any order).
OrderBy(tbl, ids) ==
  { o \in [1..Cardinality(ids) -> ids] :
      /\ \A j, k \in DOMAIN o : j # k => o[j] # o[k]
      /\ \A j, k \in DOMAIN o :
           j < k => ~Before(Get(tbl[o[k]].cols["practice_name"]),
                            Get(tbl[o[j]].cols["practice_name"])) }

\* LIMIT n
Limit(o, n) == SubSeq(o, 1, IF Len(o) < n THEN Len(o) ELSE n)

\* fetchall(): the rows, each with its id.
Fetch(tbl, o) == [k \in DOMAIN o |-> [id |-> o[k], row |-> tbl[o[k]]]]

\* ------------------------------------------------------ principal store

\* werkzeug generate_password_hash: salted, one-way; the digest is kept
\* as the pair it is computed from.
generate_password_hash(pw, salt) ==
  [salt |-> salt, digest |-> << salt, pw >>]

check_password_hash(h, pw) == h = generate_password_hash(pw, h.salt)

\* SELECT * FROM admins WHERE username = ?  (fetchone)
SelectAdmin(username) ==
  IF \E r \in admins : r.username = username
  THEN Some(CHOOSE r \in admins : r.username = username)
  ELSE None

Admin == << "a", "d", "m", "i", "n" >>

\* id INTEGER PRIMARY KEY AUTOINCREMENT of admins (no row is ever deleted).
NextAdminId(adm) ==
  IF adm = {} THEN 1
  ELSE 1 + CHOOSE m \in { r.id : r \in adm } : \A r \in adm : r.id <= m

\* Mutant of InsertAdmin: the column is not UNIQUE.
InsertAdmin_any(adm, username, hash) ==
  [ok |-> TRUE,
   table |-> adm \cup {[id |-> NextAdminId(adm), username |-> username,
                        password_hash |-> hash]}]

\* INSERT INTO admins (username, password_hash): username TEXT UNIQUE makes
\* the statement raise sqlite3.IntegrityError when the name is taken.
InsertAdmin(adm, username, hash) ==
  IF \E r \in adm : r.username = username
  THEN [ok |-> FALSE, table |-> adm]
  ELSE [ok |-> TRUE,
        table |-> adm \cup {[id |-> NextAdminId(adm), username |-> username,
                             password_hash |-> hash]}]

\* UPDATE admins SET password_hash = ? WHERE username = ?
UpdateAdminHash(adm, username, hash) ==
  { IF r.username = username THEN [r EXCEPT !.password_hash = hash] ELSE r :
      r \in adm }

\* os.environ.get('ADMIN_PASSWORD', 'admin123')
AdminPassword(env_password) ==
  IF IsNone(env_password) THEN "admin123" ELSE Get(env_password)

\* Truthiness of os.environ.get('ADMIN_PASSWORD'): unset and '' are falsy.
EnvSet(env_password) == ~IsNone(env_password) /\ Get(env_password) # ""

\* --------------------------------------------------------------- session

\* Flask's session dict: the key admin_id, the _permanent flag and the
\* pending flash() messages (kept as a set).
EmptySession == [admin_id |-> None, permanent |-> FALSE, flashes |-> {}]

NoCookie == [data |-> EmptySession, ts |-> 0]

\* Mutant of OpenToken: the age of the signature is not checked.
OpenToken_any_age(k) == k.data

\* SecureCookieSessionInterface.open_session: the cookie's payload when it
\* was signed at most PERMANENT_SESSION_LIFETIME seconds ago, else an empty
\* session.
OpenToken(k) ==
  IF k.data # EmptySession /\ now - k.ts <= PERMANENT_SESSION_LIFETIME
  THEN k.data ELSE EmptySession

open_session(c) == OpenToken(cookie[c])

\* Mutant of save_session: the cookie is signed again only when the session
\* was modified (SESSION_REFRESH_EACH_REQUEST off).
save_session_no_refresh(c, s, modified) ==
  IF s = EmptySession
  THEN IF modified THEN NoCookie ELSE cookie[c]
  ELSE IF modified THEN [data |-> s, ts |-> now]
       ELSE cookie[c]

\* SecureCookieSessionInterface.save_session with the default
\* SESSION_REFRESH_EACH_REQUEST: an emptied session deletes the cookie, a
\* modified or permanent session is signed again (with the current time).
save_session(c, s, modified) ==
  IF s = EmptySession
  THEN IF modified THEN NoCookie ELSE cookie[c]
  ELSE IF modified \/ s.permanent THEN [data |-> s, ts |-> now]
       ELSE cookie[c]

\* 'admin_id' in session
HasAdminId(s) == ~IsNone(s.admin_id)

\* flash(msg)
flash(s, msg) == [s EXCEPT !.flashes = @ \cup {msg}]

\* The admin templates show the pending notices (get_flashed_messages pops
\* them from the session).
render_notices(s) == [s EXCEPT !.flashes = {}]

Resp(c, op, status, to, notices, gp) ==
  [client |-> c, op |-> op, status |-> status, to |-> to,
   notices |-> notices, gp |-> gp]

Reply(c, s, modified, r) ==
  /\ cookie' = [cookie EXCEPT ![c] = save_session(c, s, modified)]
  /\ last' = r

InvalidNotice == "Invalid username or password."


AddedNotice == "GP practice added."
UpdatedNotice == "GP practice updated."
RemovedNotice == "GP practice removed."

db == << gps, gps_seq, admins >>
clock == << now, nticks >>
\* What only a request to /admin/login writes.
history == << auth_at, passed >>

\* What only the two-step forms of admin_edit and init_db write.
held == << editing, booting >>

\* The connection a request of client c to a route works with.
Conn(c, op) == [client |-> c, op |-> op, ended |-> FALSE]

\* get_db: the request opens a connection.
get_db(open, k) == open \cup {k}

\* conn.close()
close(open, k) == open \ {k}

\* The request ends (here: by an exception that leaves the view) without
\* having closed its connection.
Abandon(open, k) == (open \ {k}) \cup {[k EXCEPT !.ended = TRUE]}

\* A browser sends its next request after the answer to the previous one.
Idle(c) == IsNone(inflight[c])

\* ------------------------------------------------------------ rate limiter

\* MemoryStorage.get: an entry whose expiry has passed is dropped.
LiveEntry(a) ==
  IF limits[a].expiry <= now THEN [count |-> 0, expiry |-> 0] ELSE limits[a]

\* Mutant of Allowed: the comparison is off by one.
Allowed_one_more(entry) == entry.count <= LIMIT_AMOUNT + 1

\* Mutant of incr: only the first hit of a window is counted.
incr_forgets(a) ==
  LET e == LiveEntry(a)
  IN [count |-> 1,
      expiry |-> IF e.count = 0 THEN now + LIMIT_WINDOW ELSE e.expiry]

\* FixedWindowRateLimiter.hit -> MemoryStorage.incr (under the storage
\* lock): count one more; the first hit of a window sets its expiry.
incr(a) ==
  LET e == LiveEntry(a)
  IN [count |-> e.count + 1,
      expiry |-> IF e.count = 0 THEN now + LIMIT_WINDOW ELSE e.expiry]

\* hit(): the request is allowed when the incremented count is within the
\* amount.
Allowed(entry) == entry.count <= LIMIT_AMOUNT

\* @limiter.limit('10 per minute') on /admin/login, every method: the
\* limiter runs before the view; a refused request is answered 429.
LimiterCheck(c, req) ==
  /\ Idle(c)
  /\ limits' = [limits EXCEPT ![Addr(c)] = incr(Addr(c))]
  /\ IF Allowed(incr(Addr(c)))
     THEN /\ inflight' = [inflight EXCEPT ![c] = Some(req)]
          /\ passed' = [passed EXCEPT ![Addr(c)] = Append(@, now)]
          /\ UNCHANGED << cookie, last >>
     ELSE /\ Reply(c, open_session(c), FALSE,
                   Resp(c, "admin_login", 429, "too many requests", {}, None))
          /\ UNCHANGED << inflight, passed >>
  /\ UNCHANGED << db, clock, saved, auth_at, imp, held, conns >>

\* ----------------------------------------------------------------- routes

\* Mutant of login_post: a failed login clears the session.
login_post_clears(c, s, form_username, password) ==
  LET username == strip(form_username)
      row == SelectAdmin(username)
  IN IF ~IsNone(row) /\ check_password_hash(Get(row).password_hash, password)
     THEN [session |-> [admin_id |-> Some(Get(row).id),
                        permanent |-> TRUE, flashes |-> {}],
           resp |-> Resp(c, "admin_login", 302, "admin_dashboard", {}, None)]
     ELSE [session |-> EmptySession,
           resp |-> Resp(c, "admin_login", 200, "admin_login.html",
                         flash(s, InvalidNotice).flashes, None)]

\* Mutant of login_post: an unknown username gets a notice of its own.
login_post_reveals(c, s, form_username, password) ==
  LET username == strip(form_username)
      row == SelectAdmin(username)
      notice == IF IsNone(row) THEN "Unknown username." ELSE InvalidNotice
  IN IF ~IsNone(row) /\ check_password_hash(Get(row).password_hash, password)
     THEN [session |-> [admin_id |-> Some(Get(row).id),
                        permanent |-> TRUE, flashes |-> {}],
           resp |-> Resp(c, "admin_login", 302, "admin_dashboard", {}, None)]
     ELSE [session |-> render_notices(flash(s, notice)),
           resp |-> Resp(c, "admin_login", 200, "admin_login.html",
                         flash(s, notice).flashes, None)]

\* Mutant of login_post: the admin id is set in the session as it came
\* (no session.clear()).
login_post_keeps(c, s, form_username, password) ==
  LET username == strip(form_username)
      row == SelectAdmin(username)
  IN IF ~IsNone(row) /\ check_password_hash(Get(row).password_hash, password)
     THEN [session |-> [s EXCEPT !.admin_id = Some(Get(row).id),
                                 !.permanent = TRUE],
           resp |-> Resp(c, "admin_login", 302, "admin_dashboard", {}, None)]
     ELSE [session |-> render_notices(flash(s, InvalidNotice)),
           resp |-> Resp(c, "admin_login", 200, "admin_login.html",
                         flash(s, InvalidNotice).flashes, None)]

\* admin_login, POST branch: what the view leaves in the session and
\* answers, given the session s the request came with.
login_post(c, s, form_username, password) ==
  LET username == strip(form_username)
      row == SelectAdmin(username)
  IN IF ~IsNone(row) /\ check_password_hash(Get(row).password_hash, password)
     THEN [session |-> [admin_id |-> Some(Get(row).id),
                        permanent |-> TRUE, flashes |-> {}],
           resp |-> Resp(c, "admin_login", 302, "admin_dashboard", {}, None)]
     ELSE [session |-> render_notices(flash(s, InvalidNotice)),
           resp |-> Resp(c, "admin_login", 200, "admin_login.html",
                         flash(s, InvalidNotice).flashes, None)]

\* admin_login, the view (after the limiter let the request through).
admin_login(c) ==
  /\ ~Idle(c)
  /\ LET r == Get(inflight[c])
         s == open_session(c)
     IN IF r.method = "POST"
        THEN LET out == login_post(c, s, r.username, r.password)
             IN /\ Reply(c, out.session, TRUE, out.resp)
                /\ auth_at' = IF out.resp.status = 302
                              THEN [auth_at EXCEPT ![c] = now] ELSE auth_at
        ELSE /\ Reply(c, render_notices(s), s.flashes # {},
                      Resp(c, "admin_login", 200, "admin_login.html",
                           s.flashes, None))
             /\ UNCHANGED auth_at
  /\ inflight' = [inflight EXCEPT ![c] = None]
  /\ UNCHANGED << db, clock, saved, limits, passed, imp, held, conns >>

\* Mutant of admin_logout: the session is not cleared.
admin_logout_keeps(c) ==
  /\ Idle(c)
  /\ Reply(c, open_session(c), FALSE,
           Resp(c, "admin_logout", 302, "index", {}, None))
  /\ saved' = IF saved[c].token = NoCookie THEN saved
              ELSE [saved EXCEPT ![c].logged_out = TRUE]
  /\ UNCHANGED << db, clock, limits, inflight, history, imp, held, conns >>

\* admin_logout
admin_logout(c) ==
  /\ Idle(c)
  /\ Reply(c, EmptySession, TRUE,
           Resp(c, "admin_logout", 302, "index", {}, None))
  /\ saved' = IF saved[c].token = NoCookie THEN saved
              ELSE [saved EXCEPT ![c].logged_out = TRUE]
  /\ UNCHANGED << db, clock, limits, inflight, history, imp, held, conns >>

\* login_required: the answer of the decorator when it refuses.
Refuse(c, op) ==
  /\ Reply(c, open_session(c), FALSE,
           Resp(c, op, 302, "admin_login", {}, None))
  /\ UNCHANGED db

\* Mutant of login_required: the decorator lets every request through.
login_required_open(c) == TRUE

\* login_required: 'admin_id' in session.
login_required(c) == HasAdminId(open_session(c))

\* index
index(c) ==
  /\ Idle(c)
  /\ Reply(c, open_session(c), FALSE,
           Resp(c, "index", 200, "index.html", {}, None))
  /\ UNCHANGED << db, clock, saved, limits, inflight,
                  history, imp, held, conns >>

\* gp_detail
gp_detail(c, gp_id) ==
  /\ Idle(c)
  /\ LET gp == SelectGp(gp_id)
     IN IF IsNone(gp)
        THEN Reply(c, open_session(c), FALSE,
                   Resp(c, "gp_detail", 302, "index", {}, None))
        ELSE Reply(c, open_session(c), FALSE,
                   Resp(c, "gp_detail", 200, "gp_detail.html", {}, gp))
  /\ UNCHANGED << db, clock, saved, limits, inflight,
                  history, imp, held, conns >>

\* search: request.args.get('q', ''), stripped; the rows found are handed
\* to the template.
search(c, args_q) ==
  /\ Idle(c)
  /\ LET q == strip(args_q)
     IN IF q = << >>
        THEN Reply(c, open_session(c), FALSE,
                   Resp(c, "search", 302, "index", {}, None))
        ELSE \E o \in OrderBy(gps, Where(gps, SearchColumns, q)) :
               Reply(c, open_session(c), FALSE,
                     Resp(c, "search", 200, "results.html", {},
                          Some(Fetch(gps, Limit(o, SEARCH_LIMIT)))))
  /\ UNCHANGED << db, clock, saved, limits, inflight,
                  history, imp, held, conns >>

\* admin_dashboard with its listing: the rows found for q, or every row
\* when q is empty.
admin_listing(c, args_q) ==
  /\ Idle(c)
  /\ IF ~login_required(c)
     THEN Refuse(c, "admin_dashboard")
     ELSE LET s == open_session(c)
              q == strip(args_q)
              ids == IF q # << >> THEN Where(gps, AdminColumns, q)
                     ELSE DOMAIN gps
          IN /\ \E o \in OrderBy(gps, ids) :
                  Reply(c, render_notices(s), s.flashes # {},
                        Resp(c, "admin_dashboard", 200, "admin.html",
                             s.flashes, Some(Fetch(gps, Limit(o, ADMIN_LIMIT)))))
             /\ UNCHANGED db
  /\ UNCHANGED << clock, saved, limits, inflight, history, imp, held, conns >>

\* admin_dashboard (the unfiltered listing)
admin_dashboard(c) ==
  /\ Idle(c)
  /\ IF ~login_required(c)
     THEN Refuse(c, "admin_dashboard")
     ELSE LET s == open_session(c)
          IN /\ Reply(c, render_notices(s), s.flashes # {},
                      Resp(c, "admin_dashboard", 200, "admin.html",
                           s.flashes, None))
             /\ UNCHANGED db
  /\ UNCHANGED << clock, saved, limits, inflight, history, imp, held, conns >>

\* admin_add
admin_add(c, method, form) ==
  /\ Idle(c)
  /\ IF ~login_required(c)
     THEN Refuse(c, "admin_add")
     ELSE LET s == open_session(c)
          IN IF method = "POST"
             THEN IF ViolatesNotNull(add_values(form))
                  THEN \* sqlite3.IntegrityError leaves the view: 500
                       /\ Reply(c, s, FALSE,
                                Resp(c, "admin_add", 500, "IntegrityError",
                                     {}, None))
                       /\ UNCHANGED db
                  ELSE /\ gps' = InsertRow(gps, gps_seq, add_values(form))
                       /\ gps_seq' = gps_seq + 1
                       /\ UNCHANGED admins
                       /\ Reply(c, flash(s, AddedNotice), TRUE,
                                Resp(c, "admin_add", 302, "admin_dashboard",
                                     {}, None))
             ELSE /\ Reply(c, render_notices(s), s.flashes # {},
                           Resp(c, "admin_add", 200, "admin_form.html",
                                s.flashes, None))
                  /\ UNCHANGED db
  /\ conns' = LET k == Conn(c, "admin_add")
              IN IF ~(login_required(c) /\ method = "POST") THEN conns
                 ELSE IF ViolatesNotNull(add_values(form))
                 THEN Abandon(get_db(conns, k), k)
                 ELSE close(get_db(conns, k), k)
  /\ UNCHANGED << clock, saved, limits, inflight, history, imp, held >>

\* admin_edit
admin_edit(c, method, gp_id, form) ==
  /\ Idle(c)
  /\ IF ~login_required(c)
     THEN Refuse(c, "admin_edit")
     ELSE LET s == open_session(c)
              gp == SelectGp(gp_id)
          IN IF IsNone(gp)
             THEN /\ Reply(c, s, FALSE,
                           Resp(c, "admin_edit", 302, "admin_dashboard",
                                {}, None))
                  /\ UNCHANGED db
             ELSE IF method = "POST"
             THEN IF ViolatesNotNull(edit_values(form))
                  THEN /\ Reply(c, s, FALSE,
                                Resp(c, "admin_edit", 500, "IntegrityError",
                                     {}, None))
                       /\ UNCHANGED db
                  ELSE /\ gps' = UpdateRow(gps, gp_id, edit_values(form))
                       /\ UNCHANGED << gps_seq, admins >>
                       /\ Reply(c, flash(s, UpdatedNotice), TRUE,
                                Resp(c, "admin_edit", 302, "admin_dashboard",
                                     {}, None))
             ELSE /\ Reply(c, render_notices(s), s.flashes # {},
                           Resp(c, "admin_edit", 200, "admin_form.html",
                                s.flashes, gp))
                  /\ UNCHANGED db
  /\ conns' = LET k == Conn(c, "admin_edit")
              IN IF ~login_required(c) THEN conns
                 ELSE IF /\ ~IsNone(SelectGp(gp_id))
                         /\ method = "POST"
                         /\ ViolatesNotNull(edit_values(form))
                 THEN Abandon(get_db(conns, k), k)
                 ELSE close(get_db(conns, k), k)
  /\ UNCHANGED << clock, saved, limits, inflight, history, imp, held >>

\* admin_edit as the two statements it is, for requests that run beside
\* those of other workers.  First the SELECT: a request that is refused,
\* finds no row or only shows the form is answered at once; a submission
\* that found its row goes on to the UPDATE.
edit_select(c, method, gp_id, form) ==
  /\ Idle(c)
  /\ IsNone(editing[c])
  /\ IF ~login_required(c) \/ IsNone(SelectGp(gp_id)) \/ method # "POST"
     THEN admin_edit(c, method, gp_id, form)
     ELSE /\ editing' = [editing EXCEPT ![c] =
                           Some([gp_id |-> gp_id, form |-> form,
                                 gp |-> SelectGp(gp_id)])]
          /\ conns' = get_db(conns, Conn(c, "admin_edit"))
          /\ UNCHANGED << db, clock, cookie, saved, limits, inflight,
                          history, imp, booting, last >>

\* Then the UPDATE ... WHERE id=?, the commit and the answer (the row that
\* was selected is kept in the answer's record).
edit_update(c) ==
  /\ ~IsNone(editing[c])
  /\ LET e == Get(editing[c])
         s == open_session(c)
         k == Conn(c, "admin_edit")
     IN IF ViolatesNotNull(edit_values(e.form))
        THEN /\ Reply(c, s, FALSE,
                      Resp(c, "admin_edit", 500, "IntegrityError", {}, e.gp))
             /\ conns' = Abandon(conns, k)
             /\ UNCHANGED db
        ELSE /\ gps' = UpdateRow(gps, e.gp_id, edit_values(e.form))
             /\ UNCHANGED << gps_seq, admins >>
             /\ Reply(c, flash(s, UpdatedNotice), TRUE,
                      Resp(c, "admin_edit", 302, "admin_dashboard", {}, e.gp))
             /\ conns' = close(conns, k)
  /\ editing' = [editing EXCEPT ![c] = None]
  /\ UNCHANGED << clock, saved, limits, inflight, history, imp, booting >>

\* admin_delete (POST only)
admin_delete(c, gp_id) ==
  /\ Idle(c)
  /\ IF ~login_required(c)
     THEN Refuse(c, "admin_delete")
     ELSE /\ gps' = DeleteRow(gps, gp_id)
          /\ UNCHANGED << gps_seq, admins >>
          /\ Reply(c, flash(open_session(c), RemovedNotice), TRUE,
                   Resp(c, "admin_delete", 302, "admin_dashboard", {}, None))
  /\ UNCHANGED << clock, saved, limits, inflight, history, imp, held, conns >>

\* ------------------------------------------------------------ environment

\* Time passes (a request is answered long before the clock's next step).
Tick(d) ==
  /\ \A c \in Clients : Idle(c)
  /\ now' = now + d
  /\ nticks' = nticks + 1
  /\ passed' = [a \in Addrs |->
                  SelectSeq(passed[a], LAMBDA t : t > now + d - LIMIT_WINDOW)]
  /\ UNCHANGED << db, cookie, saved, limits, inflight, auth_at,
                  imp, last, held, conns >>

\* The holder of a cookie keeps a copy of it ...
KeepCopy(c) ==
  /\ Idle(c)
  /\ saved' = [saved EXCEPT ![c] = [token |-> cookie[c], logged_out |-> FALSE]]
  /\ UNCHANGED << db, clock, cookie, limits, inflight, history,
                  imp, last, held, conns >>

\* ... and later sends the copy instead of what the server last set.
PresentCopy(c) ==
  /\ Idle(c)
  /\ cookie' = [cookie EXCEPT ![c] = saved[c].token]
  /\ UNCHANGED << db, clock, saved, limits, inflight, history,
                  imp, last, held, conns >>


\* ------------------------------------------------------------ import_gps

\* A spreadsheet cell: None, a text or a number.
Text(s) == Some([t |-> "str", v |-> s])
Num(n) == Some([t |-> "int", v |-> n])

Digits == << "0", "1", "2", "3", "4", "5", "6", "7", "8", "9" >>

RECURSIVE str_int(_)
str_int(n) ==
  IF n < 10 THEN << Digits[n + 1] >>
  ELSE str_int(n \div 10) \o << Digits[(n % 10) + 1] >>

\* str(val)
str(x) == IF x.t = "int" THEN str_int(x.v) ELSE x.v

\* clean
clean(val) ==
  IF IsNone(val) THEN None
  ELSE LET s == strip(str(Get(val)))
       IN IF s # << >> THEN Some(s) ELSE None

\* clean(row[i]) if len(row) > i else None   (i counts from 0)
CleanAt(row, i) == IF Len(row) > i THEN clean(row[i + 1]) ELSE None

Manchester == << "M", "a", "n", "c", "h", "e", "s", "t", "e", "r" >>
PrestonChorley == << "P", "r", "e", "s", "t", "o", "n", " ", "&", " ",
                     "C", "h", "o", "r", "l", "e", "y" >>
Stockport == << "S", "t", "o", "c", "k", "p", "o", "r", "t" >>
PracticeNameHeader == << "P", "r", "a", "c", "t", "i", "c", "e", " ",
                         "N", "a", "m", "e" >>

\* The twelve-value tuple handed to insert, by column (t in the order of
\* Fields).
Cols(code, name, pn, nb, area, a1, a2, a3, pc, tel, email, region) ==
  LET t == << code, name, pn, nb, area, a1, a2, a3, pc, tel, email, region >>
  IN [f \in FieldSet |-> t[CHOOSE i \in 1..Len(Fields) : Fields[i] = f]]

\* import_manchester: the tuples it inserts, in order.
RECURSIVE import_manchester(_)
import_manchester(rows) ==
  IF rows = << >> THEN << >>
  ELSE LET row == Head(rows)
           name == CleanAt(row, 5)
       IN IF IsNone(name) THEN import_manchester(Tail(rows))
          ELSE << Cols(CleanAt(row, 3), name, None, CleanAt(row, 2),
                       Some(Manchester), CleanAt(row, 6), None, None,
                       CleanAt(row, 8), CleanAt(row, 9), CleanAt(row, 10),
                       Some(Manchester)) >>
               \o import_manchester(Tail(rows))

\* `if v` on a cell: None, '' and 0 are falsy.
CellTruthy(v) ==
  /\ ~IsNone(v)
  /\ IF Get(v).t = "int" THEN Get(v).v # 0 ELSE Get(v).v # << >>

\* 'Practice Name' in [str(v).strip() if v else '' for v in row]
IsHeaderRow(row) ==
  \E i \in 1..Len(row) :
    CellTruthy(row[i]) /\ strip(str(Get(row[i]))) = PracticeNameHeader

\* import_preston: rows up to and including the header row are skipped.
RECURSIVE import_preston(_, _)
import_preston(rows, header_found) ==
  IF rows = << >> THEN << >>
  ELSE LET row == Head(rows)
           name == CleanAt(row, 2)
       IN IF ~header_found
          THEN import_preston(Tail(rows), IsHeaderRow(row))
          ELSE IF IsNone(name) THEN import_preston(Tail(rows), TRUE)
          ELSE << Cols(CleanAt(row, 1), name, None, None, CleanAt(row, 0),
                       CleanAt(row, 3), CleanAt(row, 4), CleanAt(row, 5),
                       CleanAt(row, 6), CleanAt(row, 7), CleanAt(row, 8),
                       Some(PrestonChorley)) >>
               \o import_preston(Tail(rows), TRUE)

\* import_stockport: the first row is the header.
RECURSIVE import_stockport(_, _)
import_stockport(rows, header_skipped) ==
  IF rows = << >> THEN << >>
  ELSE LET row == Head(rows)
           name == CleanAt(row, 3)
       IN IF ~header_skipped THEN import_stockport(Tail(rows), TRUE)
          ELSE IF IsNone(name) THEN import_stockport(Tail(rows), TRUE)
          ELSE << Cols(CleanAt(row, 1), name, CleanAt(row, 2), None,
                       CleanAt(row, 0), None, None, None, None, None,
                       CleanAt(row, 4), Some(Stockport)) >>
               \o import_stockport(Tail(rows), TRUE)

\* insert, once per tuple.
RECURSIVE InsertAll(_, _, _)
InsertAll(tbl, seq, tuples) ==
  IF tuples = << >> THEN tbl
  ELSE InsertAll(InsertRow(tbl, seq, Head(tuples)), seq + 1, Tail(tuples))

\* init_db of import_gps: the default principal when admins is empty.
import_init_db(salt) ==
  IF admins = {}
  THEN InsertAdmin(admins, Admin,
                   generate_password_hash("admin123", salt)).table
  ELSE admins

Lower(ch) == IF ch = "Y" THEN "y" ELSE IF ch = "N" THEN "n" ELSE ch
lower(s) == [i \in 1..Len(s) |-> Lower(s[i])]

Console(what) == Resp("operator", "import_gps", 0, what, {}, None)

\* main, up to the point where the files are read: init_db, the count, the
\* question and the DELETE (committed before the load).
import_begin(answer, salt) ==
  /\ imp = "idle"
  /\ admins' = import_init_db(salt)
  /\ IF Cardinality(DOMAIN gps) > 0
     THEN IF lower(strip(answer)) # << "y" >>
          THEN /\ last' = Console("Aborted.")
               /\ UNCHANGED << gps, imp >>
          ELSE /\ gps' = EmptyTable
               /\ imp' = "loading"
               /\ last' = Console("Importing...")
     ELSE /\ imp' = "loading"
          /\ last' = Console("Importing...")
          /\ UNCHANGED gps
  /\ UNCHANGED << gps_seq, clock, cookie, saved, limits,
                  inflight, history, held, conns >>

\* main, the load: the three sheets that are present, one commit at the end.
import_load(mch, pre, sto) ==
  /\ imp = "loading"
  /\ LET tuples ==
           (IF IsNone(mch) THEN << >> ELSE import_manchester(Get(mch)))
           \o (IF IsNone(pre) THEN << >> ELSE import_preston(Get(pre), FALSE))
           \o (IF IsNone(sto) THEN << >> ELSE import_stockport(Get(sto), FALSE))
     IN /\ gps' = InsertAll(gps, gps_seq, tuples)
        /\ gps_seq' = gps_seq + Len(tuples)
  /\ imp' = "idle"
  /\ last' = Console("Done.")
  /\ UNCHANGED << admins, clock, cookie, saved, limits,
                  inflight, history, held, conns >>


\* ---------------------------------------------------------------- startup

\* Mutant of init_db: the password is synced on every start, whether
\* ADMIN_PASSWORD is set or not.
init_db_resyncs(adm, env_password, salt) ==
  LET hash == generate_password_hash(AdminPassword(env_password), salt)
  IN IF adm = {} THEN InsertAdmin(adm, Admin, hash).table
     ELSE UpdateAdminHash(adm, Admin, hash)

\* init_db of app.py on the tables as they are: the bootstrap principal
\* when admins is empty, the password re-sync when ADMIN_PASSWORD is set.
init_db(adm, env_password, salt) ==
  LET hash == generate_password_hash(AdminPassword(env_password), salt)
  IN IF adm = {} THEN InsertAdmin(adm, Admin, hash).table
     ELSE IF EnvSet(env_password) THEN UpdateAdminHash(adm, Admin, hash)
     ELSE adm

\* The warning init_db prints about the default password.
Warning(env_password) ==
  IF AdminPassword(env_password) = "admin123"
  THEN "WARNING: Using default admin password" ELSE ""

\* The application process starts (again): init_db runs at import; the
\* limiter's memory starts empty; with SECRET_KEY unset (secret_set false)
\* the key is new and no cookie signed before is accepted.
startup(env_password, salt, secret_set) ==
  /\ \A c \in Clients : Idle(c)
  /\ imp = "idle"
  /\ admins' = init_db(admins, env_password, salt)
  /\ limits' = [a \in Addrs |-> [count |-> 0, expiry |-> 0]]
  /\ passed' = [a \in Addrs |-> << >>]
  /\ cookie' = IF secret_set THEN cookie ELSE [c \in Clients |-> NoCookie]
  /\ last' = Resp("operator", "init_db", 0, Warning(env_password), {}, None)
  /\ UNCHANGED << gps, gps_seq, clock, saved, inflight,
                  auth_at, imp, held, conns >>

\* init_db as the two statements it is, for processes that start beside
\* one another (the loader's init_db is the same without ADMIN_PASSWORD and
\* without the sync).  First the SELECT: the process notes whether a
\* principal exists.
boot_select(p, env_password, salt) ==
  /\ IsNone(booting[p])
  /\ booting' = [booting EXCEPT ![p] =
                   Some([existing |-> admins # {},
                         env_password |-> env_password, salt |-> salt])]
  /\ UNCHANGED << db, clock, cookie, saved, limits, inflight, history, imp,
                  editing, conns, last >>

\* Then the write the SELECT calls for: the INSERT (which raises when the
\* name is taken meanwhile, and the process ends), the UPDATE, or nothing.
boot_write(p) ==
  /\ ~IsNone(booting[p])
  /\ LET b == Get(booting[p])
         hash == generate_password_hash(AdminPassword(b.env_password), b.salt)
         ins == InsertAdmin(admins, Admin, hash)
     IN IF ~b.existing
        THEN /\ admins' = ins.table
             /\ last' = IF ins.ok
                        THEN Resp(p, "init_db", 0, Warning(b.env_password),
                                  {}, None)
                        ELSE Resp(p, "init_db", 1, "IntegrityError", {}, None)
        ELSE /\ admins' = IF EnvSet(b.env_password)
                          THEN UpdateAdminHash(admins, Admin, hash)
                          ELSE admins
             /\ last' = Resp(p, "init_db", 0, Warning(b.env_password),
                             {}, None)
  /\ booting' = [booting EXCEPT ![p] = None]
  /\ UNCHANGED << gps, gps_seq, clock, cookie, saved, limits, inflight,
                  history, imp, editing, conns >>

\* ----------------------------------------------------------------- inputs

Nobody == << "b", "o", "b" >>

Passwords == {"admin123", "wrong"}

LoginForms(usernames) ==
  {[method |-> "POST", username |-> u, password |-> p] :
     u \in usernames, p \in Passwords}
  \cup {[method |-> "GET", username |-> << >>, password |-> ""]}

\* A submitted form: practice_name n, postcode v, every other field w.
Form(n, v, w) ==
  [f \in FieldSet |->
     IF f = "practice_name" THEN n ELSE IF f = "postcode" THEN v ELSE w]

FormAlpha == Form(Some(<< "A" >>), Some(<< "M", "1" >>), None)
FormPadded == Form(Some(<< " ", "b" >>), Some(<< "x", " " >>), Some(<< >>))
FormBlankName == Form(Some(<< >>), Some(<< >>), Some(<< >>))
FormSpaceName == Form(Some(<< " " >>), Some(<< " " >>), None)
FormNoName == Form(None, None, None)

Forms == {FormAlpha, FormPadded, FormBlankName, FormSpaceName, FormNoName}

Methods == {"GET", "POST"}

\* Ids a request may name: those assigned so far and one never assigned.
Ids == 1..(MaxRows + 1)

\* ------------------------------------------------------------------- Init

Init ==
  /\ now = 0
  /\ nticks = 0
  /\ gps = EmptyTable
  /\ gps_seq = 0
  /\ admins = init_db({}, None, "s1")
  /\ cookie = [c \in Clients |-> NoCookie]
  /\ saved = [c \in Clients |-> [token |-> NoCookie, logged_out |-> FALSE]]
  /\ limits = [a \in Addrs |-> [count |-> 0, expiry |-> 0]]
  /\ inflight = [c \in Clients |-> None]
  /\ auth_at = [c \in Clients |-> -1]
  /\ passed = [a \in Addrs |-> << >>]
  /\ imp = "idle"
  /\ editing = [c \in Clients |-> None]
  /\ booting = [p \in Procs |-> None]
  /\ conns = {}
  /\ last = Resp("nobody", "startup", 0, "", {}, None)

\* -------------------------------------------------------- specifications

Public(c) ==
  \/ index(c)
  \/ \E i \in Ids : gp_detail(c, i)

\* A request to /admin/login arrives (while the address has sent fewer than
\* `hits` in the current window).
Arrive(c, usernames, hits) ==
  /\ LiveEntry(Addr(c)).count < hits
  /\ \E r \in LoginForms(usernames) : LimiterCheck(c, r)

Protected(c, forms, rows) ==
  \/ admin_dashboard(c)
  \/ /\ gps_seq < rows
     /\ \E m \in Methods, f \in forms : admin_add(c, m, f)
  \/ \E m \in Methods, i \in Ids, f \in forms : admin_edit(c, m, i, f)
  \/ \E i \in Ids : admin_delete(c, i)

Advance(steps) == nticks < MaxTicks /\ \E d \in steps : Tick(d)

\* The guard and the routes behind it: two browsers behind one address,
\* one form, no clock.
GuardClients == {"c1", "c2"}

Next ==
  \/ \E c \in GuardClients :
       (\A o \in Clients : Idle(o)) /\ Arrive(c, {Admin, Nobody}, MaxLogins)
  \/ \E c \in GuardClients : admin_login(c)
  \/ \E c \in GuardClients : admin_logout(c)
  \/ \E c \in GuardClients : Public(c)
  \/ \E c \in GuardClients : Protected(c, {FormAlpha}, MaxGuardRows)

Spec == Init /\ [][Next]_vars


\* Expiry: one browser, the clock in steps of half the session lifetime.
ExpiryTicks == {PERMANENT_SESSION_LIFETIME \div 2}

NextExpiry ==
  \/ Arrive("c1", {Admin}, MaxLogins)
  \/ admin_login("c1")
  \/ admin_logout("c1")
  \/ index("c1")
  \/ admin_dashboard("c1")
  \/ Advance(ExpiryTicks)

SpecExpiry == Init /\ [][NextExpiry]_vars

\* The same, with a holder of the cookie that keeps a copy and presents it
\* later (the cookie is all a request carries of the session).
NextReplay ==
  \/ NextExpiry
  \/ KeepCopy("c1")
  \/ PresentCopy("c1")

SpecReplay == Init /\ [][NextReplay]_vars

\* The store: one browser, every form, the loader.
MchRowBlank == << None, None, None, Text(<< "P", "0" >>), None, Text(<< " " >>) >>
MchRow ==
  << None, None, Text(<< " ", "N" >>), Text(<< "P", "1" >>), Text(<< "P", "1" >>),
     Text(<< "C", " " >>), Text(<< "r" >>), None, Text(<< "M", "2" >>), Num(161),
     Text(<< >>) >>
PreHeader == << Text(<< "C", "C", "G" >>), None, Text(PracticeNameHeader) >>
PreRow == << Text(<< "c" >>), Num(7), Text(<< " ", "D" >>) >>
StoHeader == << Text(<< "N" >>), Text(<< "P" >>), Text(<< "n" >>), Text(<< "h" >>) >>
StoRow == << None, Text(<< "S", "1" >>), Text(<< "p", " " >>), Text(<< "E" >>), None >>

\* What os.listdir(EXCEL_DIR) offers: no sheet, or one of the three.
ImportInputs ==
  { << None, None, None >>,
    << Some(<< MchRowBlank, MchRow >>), None, None >>,
    << None, Some(<< << None >>, PreHeader, PreRow >>), None >>,
    << None, None, Some(<< StoHeader, StoRow >>) >> }

Answers == { << "y" >>, << " ", "Y" >>, << "n" >>, << >> }

NextStore ==
  \/ Arrive("c1", {Admin}, MaxLogins)
  \/ admin_login("c1")
  \/ Public("c1")
  \/ Protected("c1", Forms, MaxRows)
  \/ \E a \in Answers : import_begin(a, "s2")
  \/ /\ gps_seq < MaxRows
     /\ \E i \in ImportInputs : import_load(i[1], i[2], i[3])

SpecStore == Init /\ [][NextStore]_vars

\* The limiter: two browsers behind one address, the clock in steps of
\* half a window.
LimitClients == {"c1", "c2"}
LimitTicks == {LIMIT_WINDOW \div 2}

NextLimit ==
  \/ \E c \in LimitClients : Arrive(c, {Admin}, MaxHits)
  \/ \E c \in LimitClients : admin_login(c)
  \/ Advance(LimitTicks)

SpecLimit == Init /\ [][NextLimit]_vars

\* Search: the store as a sequence of creates left it, one browser, the
\* terms below.
Row(name, pc, code, a1, nb, area) ==
  [cols |-> Cols(code, Some(name), None, nb, area, a1, None, None, pc, None,
                 None, None),
   created_at |-> 0]

RowBob == Row(<< "b", "o", "b" >>, Some(<< "M", "1" >>), None, None, None, None)
RowZed ==
  Row(<< "Z", "e", "d" >>, None, None, None, None, Some(<< "B", "o", "b" >>))
RowPct ==
  Row(<< "A", "%" >>, None, Some(<< "5", "_" >>), Some(<< "b" >>), None, None)
RowAl == Row(<< "a", "l" >>, Some(<< "m", "1", "5" >>), None, None, None, None)

\* A table holding the given rows under the ids 1, 2, ...
Table(rows) == [i \in 1..Len(rows) |-> rows[i]]

SearchTables ==
  { Table(<< >>),
    Table(<< RowBob >>),
    Table(<< RowPct >>),
    Table(<< RowBob, RowZed >>),
    Table(<< RowBob, RowBob >>),
    Table(<< RowZed, RowAl, RowPct >>),
    Table(<< RowBob, RowZed, RowAl >>) }

Terms ==
  { << >>, << " " >>, << "b" >>, << "B", "O" >>, << " ", "z", " " >>,
    << "%" >>, << "_" >>, << "5", "_" >>, << "m", "1" >>, << "x" >> }

InitSearch ==
  /\ now = 0
  /\ nticks = 0
  /\ gps \in SearchTables
  /\ gps_seq = Cardinality(DOMAIN gps)
  /\ admins = init_db({}, None, "s1")
  /\ cookie = [c \in Clients |-> NoCookie]
  /\ saved = [c \in Clients |-> [token |-> NoCookie, logged_out |-> FALSE]]
  /\ limits = [a \in Addrs |-> [count |-> 0, expiry |-> 0]]
  /\ inflight = [c \in Clients |-> None]
  /\ auth_at = [c \in Clients |-> -1]
  /\ passed = [a \in Addrs |-> << >>]
  /\ imp = "idle"
  /\ editing = [c \in Clients |-> None]
  /\ booting = [p \in Procs |-> None]
  /\ conns = {}
  /\ last = Resp("nobody", "startup", 0, "", {}, None)

NextSearch ==
  \/ Arrive("c1", {Admin}, MaxLogins)
  \/ admin_login("c1")
  \/ \E q \in Terms : search("c1", q)
  \/ \E q \in Terms : admin_listing("c1", q)

SpecSearch == InitSearch /\ [][NextSearch]_vars

\* The reach of the limiter: two browsers behind two addresses, the login
\* page and the public pages.
ScopeClients == {"c1", "c3"}

NextScope ==
  \/ \E c \in ScopeClients : Arrive(c, {Admin}, MaxHits)
  \/ \E c \in ScopeClients : admin_login(c)
  \/ \E c \in ScopeClients : Public(c)
  \/ \E c \in ScopeClients, q \in {<< "b" >>} : search(c, q)

SpecScope == Init /\ [][NextScope]_vars

\* Startups: the tables before the first start, the application started
\* again and again with or without ADMIN_PASSWORD, the loader, one browser.
EnvPasswords == {None, Some(""), Some("admin123"), Some("rotated")}
Salts == {"s1", "s2"}

InitBoot ==
  /\ now = 0
  /\ nticks = 0
  /\ gps = EmptyTable
  /\ gps_seq = 0
  /\ admins = {}
  /\ cookie = [c \in Clients |-> NoCookie]
  /\ saved = [c \in Clients |-> [token |-> NoCookie, logged_out |-> FALSE]]
  /\ limits = [a \in Addrs |-> [count |-> 0, expiry |-> 0]]
  /\ inflight = [c \in Clients |-> None]
  /\ auth_at = [c \in Clients |-> -1]
  /\ passed = [a \in Addrs |-> << >>]
  /\ imp = "idle"
  /\ editing = [c \in Clients |-> None]
  /\ booting = [p \in Procs |-> None]
  /\ conns = {}
  /\ last = Resp("nobody", "startup", 0, "", {}, None)

NextBoot ==
  \/ \E e \in EnvPasswords, s \in Salts, k \in BOOLEAN : startup(e, s, k)
  \/ \E a \in Answers, s \in Salts : import_begin(a, s)
  \/ import_load(None, None, None)
  \/ admins # {} /\ Arrive("c1", {Admin}, MaxLogins)
  \/ admin_login("c1")
  \/ admins # {} /\ admin_dashboard("c1")

SpecBoot == InitBoot /\ [][NextBoot]_vars

\* Logging in again: one browser that logs in, writes to the store (each
\* write leaves a notice pending in the session) and logs in again without
\* having been shown a page in between.
NextReauth ==
  \/ Arrive("c1", {Admin, Nobody}, MaxHits)
  \/ admin_login("c1")
  \/ admin_logout("c1")
  \/ /\ gps_seq < MaxRows
     /\ \E f \in {FormAlpha, FormPadded} : admin_add("c1", "POST", f)
  \/ \E i \in Ids : admin_edit("c1", "POST", i, FormAlpha)
  \/ \E i \in Ids : admin_delete("c1", i)

SpecReauth == Init /\ [][NextReauth]_vars

\* The records: one browser that creates, updates, deletes and looks up,
\* and the loader emptying the table and loading one sheet.
RecordForms == {FormAlpha, FormPadded, FormNoName}

NextRecords ==
  \/ Arrive("c1", {Admin}, MaxLogins)
  \/ admin_login("c1")
  \/ /\ gps_seq < MaxRows
     /\ \E f \in RecordForms : admin_add("c1", "POST", f)
  \/ \E i \in Ids, f \in RecordForms : admin_edit("c1", "POST", i, f)
  \/ \E i \in Ids : admin_delete("c1", i)
  \/ import_begin(<< "y" >>, "s2")
  \/ /\ gps_seq < MaxRows
     /\ import_load(None, None, Some(<< StoHeader, StoRow >>))

SpecRecords == Init /\ [][NextRecords]_vars

\* An edit beside a delete: two browsers, each logged in; c1 edits, and
\* the two statements of its edit interleave with the creates and deletes
\* of c2.
RaceClients == {"c1", "c2"}

NextRace ==
  \/ \E c \in RaceClients : Arrive(c, {Admin}, MaxLogins)
  \/ \E c \in RaceClients : admin_login(c)
  \/ gps_seq < MaxRows /\ admin_add("c2", "POST", FormAlpha)
  \/ \E m \in Methods, i \in Ids : edit_select("c1", m, i, FormPadded)
  \/ edit_update("c1")
  \/ \E i \in Ids : admin_delete("c2", i)

SpecRace == Init /\ [][NextRace]_vars

\* Processes starting beside one another on tables without a principal:
\* two workers of the application and the loader, each init_db in its two
\* statements.
NextBootRace ==
  \/ \E p \in Procs \ {"loader"}, e \in EnvPasswords, s \in Salts :
       boot_select(p, e, s)
  \/ \E s \in Salts : boot_select("loader", None, s)
  \/ \E p \in Procs : boot_write(p)

SpecBootRace == InitBoot /\ [][NextBootRace]_vars

\* ================================================================ claims

\* The client's cookie carries no admin id the server accepts: none is in
\* its payload, or it was signed longer ago than the session lifetime.
NoAdminId(c) ==
  \/ cookie[c].data.admin_id = None
  \/ now - cookie[c].ts > PERMANENT_SESSION_LIFETIME

\* Some request of client c to a protected route is answered in this step.
ProtectedRequest(c) ==
  /\ last'.client = c
  /\ \/ admin_dashboard(c)
     \/ \E m \in Methods, f \in Forms : admin_add(c, m, f)
     \/ \E m \in Methods, i \in Ids, f \in Forms : admin_edit(c, m, i, f)
     \/ \E i \in Ids : admin_delete(c, i)

LoginAnswered(c, status) ==
  /\ ~Idle(c)
  /\ Get(inflight[c]).method = "POST"
  /\ admin_login(c)
  /\ last'.status = status

\* C1: a request to a protected route by a client without an accepted admin
\* id is answered with a redirect to the login page and changes neither the
\* record store, the principal store nor the session; the record store
\* changes only in a step of a client that holds an admin id obtained by a
\* successful login.
C1_GuardRefuses ==
  [][ /\ \A c \in Clients :
           (NoAdminId(c) /\ ProtectedRequest(c)) =>
             /\ last'.status = 302 /\ last'.to = "admin_login"
             /\ UNCHANGED << gps, gps_seq, admins, cookie >>
      /\ gps' # gps =>
           \E c \in Clients :
             ~NoAdminId(c) /\ auth_at[c] >= 0 /\ ProtectedRequest(c)
    ]_vars

\* An anonymous client was refused a delete while a record is stored.
C1_Witness ==
  /\ last.op = "admin_delete" /\ last.to = "admin_login"
  /\ NoAdminId(last.client)
  /\ DOMAIN gps # {}

\* C4: a successful login leaves the client accepted by the guard; a logout
\* leaves it anonymous whatever it was before; an anonymous client becomes
\* accepted again only by a successful login (until then every protected
\* request is redirected).
C4_LoginLogout ==
  [][ \A c \in Clients :
        /\ LoginAnswered(c, 302) => login_required(c)'
        /\ admin_logout(c) => NoAdminId(c)'
        /\ (NoAdminId(c) /\ ~NoAdminId(c)') => LoginAnswered(c, 302)
        /\ (NoAdminId(c) /\ ProtectedRequest(c)) => last'.to = "admin_login"
    ]_vars

\* c1 logged in, logged out, and was then refused the dashboard.
C4_Witness ==
  /\ auth_at["c1"] >= 0
  /\ NoAdminId("c1")
  /\ last = Resp("c1", "admin_dashboard", 302, "admin_login", {}, None)

\* C6 as stated: after a failed login the client is anonymous, whatever it
\* was before.
C6_FailedLoginAnonymous ==
  [][ \A c \in Clients : LoginAnswered(c, 200) => NoAdminId(c)' ]_vars

\* C6 amended: a failed login leaves the admin id of the session as it
\* was (anonymous stays anonymous, accepted stays accepted); the answer is
\* the login page with the generic notice, the only notice for a client
\* that was anonymous.
C6_FailedLoginKeepsState ==
  [][ \A c \in Clients :
        LoginAnswered(c, 200) =>
          /\ NoAdminId(c)' <=> NoAdminId(c)
          /\ cookie'[c].data.admin_id = open_session(c).admin_id
          /\ last'.to = "admin_login.html"
          /\ InvalidNotice \in last'.notices
          /\ NoAdminId(c) => last'.notices = {InvalidNotice}
    ]_vars

\* c1, logged in, got the failure notice and is still accepted.
C6_Witness ==
  /\ last.client = "c1" /\ last.op = "admin_login" /\ last.status = 200
  /\ InvalidNotice \in last.notices
  /\ ~NoAdminId("c1")

WrongPassword(p) ==
  \A r \in admins : r.username = Admin => ~check_password_hash(r.password_hash, p)

\* C7: from any state, a login with an unknown username and a login with
\* the existing username and a wrong password leave the same session and
\* give the same answer.
C7_SameFailure ==
  \A c \in Clients, p1 \in Passwords, p2 \in Passwords :
    WrongPassword(p2) =>
      login_post(c, open_session(c), Nobody, p1)
        = login_post(c, open_session(c), Admin, p2)

\* A failed login was answered, and it is the answer both submissions get.
C7_Witness ==
  /\ last.op = "admin_login" /\ last.status = 200
  /\ \E p \in Passwords :
       /\ WrongPassword(p)
       /\ last = login_post(last.client, open_session(last.client), Nobody, p).resp
       /\ last = login_post(last.client, open_session(last.client), Admin, p).resp


\* Some request of client c is answered in this step by a route of the
\* expiry specification.
Answered(c) ==
  /\ last'.client = c
  /\ \/ index(c)
     \/ admin_dashboard(c)
     \/ admin_login(c)
     \/ admin_logout(c)

Blank(o) == IsNone(o) \/ strip(Get(o)) = << >>

\* C8: every stored record has a practice_name that is present and not
\* empty or whitespace-only.
C8_NameRequired ==
  \A i \in DOMAIN gps : ~Blank(gps[i].cols["practice_name"])

\* C9: every optional field of every stored record is null or a non-empty
\* string without leading or trailing whitespace.
C9_OptionalNormalized ==
  \A i \in DOMAIN gps : \A f \in OptionalFields :
    LET v == gps[i].cols[f]
    IN IsNone(v) \/ (Get(v) # << >> /\ strip(Get(v)) = Get(v))

PassedSince(a, t) ==
  Cardinality({ i \in 1..Len(passed[a]) : passed[a][i] >= t })

\* The start of the limiter's current window of address a.
WindowStart(a) == limits[a].expiry - LIMIT_WINDOW

WithinLimit ==
  \A a \in Addrs :
    limits[a].expiry > now => PassedSince(a, WindowStart(a)) <= LIMIT_AMOUNT

\* C2: in every window of an address at most 10 requests to /admin/login
\* are let through; once 10 were let through, every further request in the
\* window is answered 429 whatever credentials it carries, sets no session
\* and reaches no view; answering a login, successful or not, leaves the
\* count as it is.
C2_TenPerWindow ==
  [][ /\ WithinLimit /\ WithinLimit'
      /\ \A c \in Clients :
           /\ ( /\ limits[Addr(c)].expiry > now
                /\ PassedSince(Addr(c), WindowStart(Addr(c))) >= LIMIT_AMOUNT
                /\ \E r \in LoginForms({Admin, Nobody}) : LimiterCheck(c, r) )
              => /\ last' = Resp(c, "admin_login", 429, "too many requests",
                                 {}, None)
                 /\ UNCHANGED << inflight, auth_at, db >>
                 /\ cookie'[c].data = open_session(c)
           /\ admin_login(c) => limits' = limits
    ]_vars

\* An address that logged in successfully in this window has had 10
\* requests let through and the next one answered 429.
C2_Witness ==
  /\ last.status = 429
  /\ limits["a1"].expiry > now
  /\ PassedSince("a1", WindowStart("a1")) = LIMIT_AMOUNT
  /\ limits["a1"].count > LIMIT_AMOUNT
  /\ \E c \in Clients : auth_at[c] >= WindowStart("a1")

\* The term occurs in the text as a literal substring, letters compared
\* whatever their case.
Contains(text, term) ==
  \E i \in 0..(Len(text) - Len(term)) :
    \A j \in 1..Len(term) : Fold(text[i + j]) = Fold(term[j])

\* The ids of the records in which the term occurs in one of the columns.
Occurs(columns, term) ==
  { i \in DOMAIN gps :
      \E f \in columns :
        ~IsNone(gps[i].cols[f]) /\ Contains(Get(gps[i].cols[f]), term) }

\* The ids of the rows of a response.
Returned(r) == { Get(r.gp)[k].id : k \in DOMAIN Get(r.gp) }

\* C11: for every non-empty term, % and _ included, public search returns
\* exactly the records in which the term occurs as a literal
\* case-insensitive substring of one of its six columns, and the admin
\* search does so over its three columns.
C11_LiteralSubstring ==
  [][ \A q \in Terms :
        /\ (search("c1", q) /\ last'.status = 200)
             => Returned(last') = Occurs(SearchColumns, strip(q))
        /\ (admin_listing("c1", q) /\ last'.status = 200 /\ strip(q) # << >>)
             => Returned(last') = Occurs(AdminColumns, strip(q))
    ]_vars

\* Name a does not come after name b in a case-insensitive order.
NotAfterNoCase(a, b) ==
  LET fa == [i \in DOMAIN a |-> Fold(a[i])]
      fb == [i \in DOMAIN b |-> Fold(b[i])]
  IN ~Before(fb, fa)

\* The rows of a response are in ascending case-insensitive order of
\* practice_name.
SortedNoCase(r) ==
  \A j, k \in DOMAIN Get(r.gp) :
    j < k => NotAfterNoCase(Get(Get(r.gp)[j].row.cols["practice_name"]),
                            Get(Get(r.gp)[k].row.cols["practice_name"]))

Min(a, b) == IF a < b THEN a ELSE b

\* C12: the rows returned by search and by the admin listing are sorted by
\* practice_name under a case-insensitive comparison, and their number is
\* the number of matches or the cap (100, 200), whichever is smaller.
C12_OrderedAndCapped ==
  [][ \A q \in Terms :
        /\ (search("c1", q) /\ last'.status = 200)
             => /\ SortedNoCase(last')
                /\ Len(Get(last'.gp))
                     = Min(Cardinality(Where(gps, SearchColumns, strip(q))),
                           SEARCH_LIMIT)
        /\ (admin_listing("c1", q) /\ last'.status = 200)
             => /\ SortedNoCase(last')
                /\ Len(Get(last'.gp)) <= ADMIN_LIMIT
    ]_vars

\* A request of client c to /admin/login with the given method meets the
\* limiter in this step.
LoginRequest(c, method) ==
  \E r \in LoginForms({Admin, Nobody}) :
    r.method = method /\ LimiterCheck(c, r)

\* C13: only login submissions count: the limiter's entry of an address
\* changes only in a step in which a client of that address submits the
\* login form, and a request for the login page, the landing page, a search
\* or a detail page is never answered 429.
C13_OnlySubmissionsCount ==
  [][ /\ \A a \in Addrs :
           limits'[a] # limits[a]
             => \E c \in Clients : Addr(c) = a /\ LoginRequest(c, "POST")
      /\ \A c \in Clients :
           ( \/ LoginRequest(c, "GET")
             \/ Public(c)
             \/ \E q \in Terms : search(c, q) )
             => last'.status # 429
    ]_vars

\* The principals without their hashes.
Names(adm) == { [id |-> r.id, username |-> r.username] : r \in adm }

\* C14: a start on an empty principal store creates exactly one principal,
\* named admin; a later start without ADMIN_PASSWORD leaves the principal
\* store as it is; a later start with ADMIN_PASSWORD changes nothing but
\* the hash of that principal, which then verifies the given password; a
\* run of the loader's init_db creates the principal on an empty store and
\* changes nothing otherwise.
C14_BootstrapIdempotent ==
  [][ /\ \A e \in EnvPasswords, s \in Salts, k \in BOOLEAN :
           startup(e, s, k) =>
             /\ admins = {} =>
                  /\ Names(admins') = {[id |-> 1, username |-> Admin]}
                  /\ Cardinality(admins') = 1
             /\ (admins # {} /\ ~EnvSet(e)) => admins' = admins
             /\ (admins # {} /\ EnvSet(e)) =>
                  /\ Names(admins') = Names(admins)
                  /\ Cardinality(admins') = Cardinality(admins)
                  /\ \A r \in admins' :
                       check_password_hash(r.password_hash, Get(e))
      /\ \A a \in Answers, s \in Salts :
           import_begin(a, s) =>
             /\ admins = {} =>
                  /\ Names(admins') = {[id |-> 1, username |-> Admin]}
                  /\ Cardinality(admins') = 1
             /\ admins # {} => admins' = admins
      /\ Cardinality(admins') <= 1
    ]_vars

\* c1 logged in with the default password, and a later start with
\* ADMIN_PASSWORD=rotated left the one principal with a hash of that
\* password.
C14_Witness ==
  /\ auth_at["c1"] >= 0
  /\ last.op = "init_db"
  /\ Cardinality(admins) = 1
  /\ \A r \in admins :
       /\ r.id = 1
       /\ r.username = Admin
       /\ check_password_hash(r.password_hash, "rotated")

\* The session a successful login of the named principal leaves.
FreshSession(username) ==
  [admin_id |-> Some(Get(SelectAdmin(username)).id),
   permanent |-> TRUE, flashes |-> {}]

\* C15: right after a successful login the client's session holds the id
\* of the verified principal and the permanent flag and nothing else,
\* whatever the session held before; and a session never holds an admin id
\* other than that of the principal the client last logged in as.
C15_LoginReplacesSession ==
  [][ \A c \in Clients :
        /\ LoginAnswered(c, 302) =>
             /\ cookie'[c].data = FreshSession(strip(Get(inflight[c]).username))
             /\ cookie'[c].ts = now
        /\ HasAdminId(cookie'[c].data) =>
             /\ auth_at'[c] >= 0
             /\ cookie'[c].data.admin_id = FreshSession(Admin).admin_id
    ]_vars

\* c1 sent two requests to /admin/login, created a record in between (so
\* the first login succeeded and the notice of the create was pending), and
\* the second login has just succeeded.
C15_Witness ==
  /\ limits["a1"].count = 2
  /\ gps_seq >= 1
  /\ last = Resp("c1", "admin_login", 302, "admin_dashboard", {}, None)
  /\ cookie["c1"].data = FreshSession(Admin)

\* What a submitted value leaves in an optional column: the value, or null
\* when it is absent or empty.
Submitted(form, f) ==
  IF f = "practice_name" THEN form[f]
  ELSE IF form[f] = None \/ form[f] = Some(<< >>) THEN None ELSE form[f]

C17_ConnectionsReleased ==
  /\ conns = {}
  /\ last.status # 500

\* C18: the UPDATE of an edit, wherever it falls among the requests of
\* other workers, creates no record and changes no record but the one it
\* names; and a record that was deleted is never in the store again.
C18_NoResurrection ==
  [][ /\ \A c \in Clients :
           edit_update(c) =>
             /\ DOMAIN gps' \subseteq DOMAIN gps
             /\ \A j \in DOMAIN gps' \ {Get(editing[c]).gp_id} :
                  gps'[j] = gps[j]
      /\ \A i \in 1..gps_seq : i \notin DOMAIN gps => i \notin DOMAIN gps'
    ]_vars

\* An edit selected its record, the record was deleted before the edit's
\* UPDATE, the UPDATE ran and was answered, and the store holds no record.
C18_Witness ==
  /\ last.op = "admin_edit"
  /\ last.status = 302
  /\ ~IsNone(last.gp)
  /\ gps_seq >= 1
  /\ gps = EmptyTable

\* C19: however the SELECTs and the writes of processes that run init_db
\* side by side interleave, the principal store holds at most one principal
\* named admin (and no other).
C19_OnePrincipal ==
  /\ Cardinality({ r \in admins : r.username = Admin }) <= 1
  /\ Cardinality(admins) <= 1

\* A process found no principal, another inserted one first, and the
\* INSERT of the first was refused: one principal is stored.
C19_Witness ==
  /\ last.op = "init_db"
  /\ last.to = "IntegrityError"
  /\ Cardinality(admins) = 1

\* C20: the id sequence never goes back, every id in the store was assigned
\* by it, every record that appears gets an id greater than every id
\* assigned before, and an id whose record was deleted names no record
\* again.
C20_IdsNeverReused ==
  [][ /\ gps_seq' >= gps_seq
      /\ \A i \in DOMAIN gps' : i >= 1 /\ i <= gps_seq'
      /\ \A i \in DOMAIN gps' \ DOMAIN gps : i > gps_seq
      /\ \A i \in 1..gps_seq : i \notin DOMAIN gps => i \notin DOMAIN gps'
    ]_vars

\* Id 1 was assigned and its record removed; the create that c1 was just
\* answered got id 2.
C20_Witness ==
  /\ last = Resp("c1", "admin_add", 302, "admin_dashboard", {}, None)
  /\ DOMAIN gps = {2}
  /\ gps_seq = 2

====
